---- MODULE Spec2Model ----
(***************************************************************************)
(* Model of the FarmerPay bank profitability calculator (src/app.py).      *)
(*                                                                         *)
(* The program is a Streamlit script: every change of a sidebar widget     *)
(* re-runs the whole script, which reads the widgets and recomputes every  *)
(* derived record.  Each action below is one widget change followed by the *)
(* complete re-run.                                                        *)
(*                                                                         *)
(* Units (the code uses floats; the model uses exact fixed point):         *)
(*   npa_rate, effective_npa      hundredths of a percent (1416 = 14.16%)  *)
(*   interest_rate                tenths of a percent     (70   = 7.0%)    *)
(*   loan_amount, fees, prices    rupees                                   *)
(*   collection_efficiency and recovery_rate inside get_bank_parameters    *)
(*                                thousandths of a percent (80000 = 80%)   *)
(*   collection_efficiency and recovery_rate of the returned profile       *)
(*                                the same integer, read as fraction*10^5  *)
(*   money fields of the metrics  rupees * LoanStep (1/10000 rupee)        *)
(***************************************************************************)
EXTENDS Integers, Sequences, FiniteSets, TLC

\* ---------------------------------------------------------------- bounds
\* loan amounts explored: MinLoan + k*LoanStep for k in 0..MaxLoanSteps,
\* and the default loan amount
MaxLoanSteps == 1

\* longest projection horizon explored, in years
MaxHorizon == 3

\* ------------------------------------------------------ widget constants
SCB == "Scheduled Commercial Banks (SCBs)"
RRB == "Regional Rural Banks (RRBs)"
COOP == "Cooperative Banks"
BankTypes == {SCB, RRB, COOP}

NpaMin == 0
NpaMax == 3000
NpaStep == 10
MinLoan == 10000
LoanStep == 10000
DefaultLoan == 120000
MinRate == 10
MaxRate == 150
DefaultRate == 70

DefaultBasicPct == 60
DefaultPremiumPct == 30
MinBasicPrice == 400
MaxBasicPrice == 800
DefaultBasicPrice == 600
DefaultPremiumPrice == 1000
DefaultEnterprisePrice == 1500

MinPremiumPrice == 800
MaxPremiumPrice == 1400
MinEnterprisePrice == 1200
MaxEnterprisePrice == 2000
MinBasicPct == 40
MaxBasicPct == 80
MinPremiumPct == 20
MaxPremiumPct == 40
PctStep == 5
MinFarmers == 1000
MaxFarmers == 2500000
DefaultFarmers == 10000
FarmerStep == 1000
DefaultPortfolioSize == 1000

Max(a, b) == IF a >= b THEN a ELSE b
Min(a, b) == IF a <= b THEN a ELSE b

\* default of the NPA slider, which depends on the selected bank type
DefaultNpa(bt) == IF bt = SCB THEN 1416 ELSE IF bt = RRB THEN 710 ELSE 650

\* values the NPA slider can hold: the grid min + k*step, and the default
NpaValues(bt) ==
    {NpaMin + k * NpaStep : k \in 0..((NpaMax - NpaMin) \div NpaStep)}
        \cup {DefaultNpa(bt)}

LoanAmounts == {MinLoan + k * LoanStep : k \in 0..MaxLoanSteps} \cup {DefaultLoan}
InterestRates == {MinRate, DefaultRate, MaxRate}
BasicPrices == {MinBasicPrice, DefaultBasicPrice, MaxBasicPrice}

\* money: rupees expressed in units of 1/LoanStep rupee
Rupees(x) == x * LoanStep

\* value of a name that the script has bound to None
None == [none |-> TRUE]

\* the six additional revenue sliders at their defaults
DefaultRevenueStreams ==
    [insurance_commission |-> 150, marketplace_commission |-> 200,
     data_analytics_revenue |-> 100, credit_scoring_revenue |-> 80,
     weather_advisory_revenue |-> 50, training_programs_revenue |-> 120]

\* values explored for the insurance commission slider (min, default, max)
InsuranceCommissions == {100, 150, 200}

\* tier prices explored: minimum, default and maximum of each slider
PremiumPrices == {MinPremiumPrice, DefaultPremiumPrice, MaxPremiumPrice}
EnterprisePrices == {MinEnterprisePrice, DefaultEnterprisePrice, MaxEnterprisePrice}

\* tier shares the two percentage sliders can hold
BasicPercentages ==
    {MinBasicPct + k * PctStep : k \in 0..((MaxBasicPct - MinBasicPct) \div PctStep)}
PremiumPercentages ==
    {MinPremiumPct + k * PctStep : k \in 0..((MaxPremiumPct - MinPremiumPct) \div PctStep)}

\* the farmer counts of the scaling table
farmer_scale_range ==
    <<1000, 5000, 10000, 25000, 50000, 100000, 250000, 500000, 1000000>>

\* farmer counts explored: both ends of the input and the scaling-table scales
FarmerCounts ==
    {MinFarmers, DefaultFarmers, MaxFarmers}
        \cup {farmer_scale_range[i] : i \in 1..Len(farmer_scale_range)}

PortfolioSizes == {100, 500, 1000, 2000, 5000}

VARIABLES bank_type, npa_rate, loan_amount, interest_rate, include_farmerpay,
          basic_tier_percentage, premium_tier_percentage,
          basic_tier_price, premium_tier_price, enterprise_tier_price,
          farmerpay_fee, bank_params, metrics, bank_params_fp, metrics_fp,
          num_farmers, revenue_streams, portfolio_size,
          tiers, platform, key_metrics,
          strategy, scenario, projection

inputs == <<bank_type, npa_rate, loan_amount, interest_rate, include_farmerpay,
            basic_tier_percentage, premium_tier_percentage,
            basic_tier_price, premium_tier_price, enterprise_tier_price,
            num_farmers, revenue_streams, portfolio_size>>
outputs == <<farmerpay_fee, bank_params, metrics, bank_params_fp, metrics_fp,
             tiers, platform, key_metrics>>
\* the engine's own inputs and result: the strategy toggles of the platform
\* configuration, the growth scenario and the projected farmer counts
engine == <<strategy, scenario, projection>>
vars == <<inputs, outputs, engine>>

\* ------------------------------------------------------- tiered pricing
enterprise_tier_percentage(basic, premium) == 100 - basic - premium

\* weighted average fee; percentages are multiples of 5 and prices multiples
\* of 20, so every product is a multiple of 100 and the division is exact
WeightedFee(basic, premium, pb, pp, pe) ==
    (basic * pb + premium * pp + enterprise_tier_percentage(basic, premium) * pe) \div 100

\* --------------------------------------------------- get_bank_parameters
\* variant: the subtraction without the clamp at 0
FarmerPayEffectiveNpa_NoClamp(bt, npa) ==
    IF bt = SCB THEN npa - 200
    ELSE IF bt = RRB THEN npa - 150
    ELSE npa - 100

\* effective_npa of the with_farmerpay branches: max(0, npa_rate - reduction)
FarmerPayEffectiveNpa(bt, npa) ==
    IF bt = SCB THEN Max(0, npa - 200)
    ELSE IF bt = RRB THEN Max(0, npa - 150)
    ELSE Max(0, npa - 100)

\* variant: the assisted branches degrade with the unassisted slope 2.0
CollectionEfficiency_UnassistedSlope(bt, npa, with_farmerpay) ==
    IF bt = SCB THEN
        IF with_farmerpay
        THEN Max(75000, 90000 - (FarmerPayEffectiveNpa(bt, npa) - 1216) * 20)
        ELSE Max(60000, 80000 - (npa - 1416) * 20)
    ELSE IF bt = RRB THEN
        IF with_farmerpay
        THEN Max(80000, 93000 - (FarmerPayEffectiveNpa(bt, npa) - 560) * 20)
        ELSE Max(70000, 85000 - (npa - 710) * 20)
    ELSE
        IF with_farmerpay
        THEN Max(77000, 92000 - (FarmerPayEffectiveNpa(bt, npa) - 550) * 20)
        ELSE Max(72000, 87000 - (npa - 650) * 20)

\* variant: the unassisted branches subtract in the other order
CollectionEfficiency_SwappedDifference(bt, npa, with_farmerpay) ==
    IF bt = SCB THEN
        IF with_farmerpay
        THEN Max(75000, 90000 - (FarmerPayEffectiveNpa(bt, npa) - 1216) * 15)
        ELSE Max(60000, 80000 - (1416 - npa) * 20)
    ELSE IF bt = RRB THEN
        IF with_farmerpay
        THEN Max(80000, 93000 - (FarmerPayEffectiveNpa(bt, npa) - 560) * 15)
        ELSE Max(70000, 85000 - (710 - npa) * 20)
    ELSE
        IF with_farmerpay
        THEN Max(77000, 92000 - (FarmerPayEffectiveNpa(bt, npa) - 550) * 15)
        ELSE Max(72000, 87000 - (650 - npa) * 20)

\* collection_efficiency in percent (thousandths), one line per branch
CollectionEfficiency(bt, npa, with_farmerpay) ==
    IF bt = SCB THEN
        IF with_farmerpay
        THEN Max(75000, 90000 - (FarmerPayEffectiveNpa(bt, npa) - 1216) * 15)
        ELSE Max(60000, 80000 - (npa - 1416) * 20)
    ELSE IF bt = RRB THEN
        IF with_farmerpay
        THEN Max(80000, 93000 - (FarmerPayEffectiveNpa(bt, npa) - 560) * 15)
        ELSE Max(70000, 85000 - (npa - 710) * 20)
    ELSE
        IF with_farmerpay
        THEN Max(77000, 92000 - (FarmerPayEffectiveNpa(bt, npa) - 550) * 15)
        ELSE Max(72000, 87000 - (npa - 650) * 20)

\* variant: the assisted Cooperative branch without min(100, ...)
RecoveryRate_NoCap(bt, npa, with_farmerpay) ==
    IF bt = SCB THEN
        IF with_farmerpay
        THEN Max(85000, 95000 - (FarmerPayEffectiveNpa(bt, npa) - 1216) * 12)
        ELSE Max(70000, 85000 - (npa - 1416) * 15)
    ELSE IF bt = RRB THEN
        IF with_farmerpay
        THEN Max(88000, 98000 - (FarmerPayEffectiveNpa(bt, npa) - 560) * 12)
        ELSE Max(75000, 90000 - (npa - 710) * 15)
    ELSE
        IF with_farmerpay
        THEN Max(88000, 100000 - (FarmerPayEffectiveNpa(bt, npa) - 550) * 12)
        ELSE Max(73000, 88000 - (npa - 650) * 15)

\* recovery_rate in percent (thousandths), one line per branch
RecoveryRate(bt, npa, with_farmerpay) ==
    IF bt = SCB THEN
        IF with_farmerpay
        THEN Max(85000, 95000 - (FarmerPayEffectiveNpa(bt, npa) - 1216) * 12)
        ELSE Max(70000, 85000 - (npa - 1416) * 15)
    ELSE IF bt = RRB THEN
        IF with_farmerpay
        THEN Max(88000, 98000 - (FarmerPayEffectiveNpa(bt, npa) - 560) * 12)
        ELSE Max(75000, 90000 - (npa - 710) * 15)
    ELSE
        IF with_farmerpay
        THEN Min(100000, Max(88000, 100000 - (FarmerPayEffectiveNpa(bt, npa) - 550) * 12))
        ELSE Max(73000, 88000 - (npa - 650) * 15)

\* variant: the assisted SCB branch keeps the unassisted operating cost
OperationalCosts_NoSaving(bt, with_farmerpay) ==
    IF bt = SCB THEN 1300
    ELSE IF bt = RRB THEN (IF with_farmerpay THEN 900 ELSE 1000)
    ELSE (IF with_farmerpay THEN 688 ELSE 860)

OperationalCosts(bt, with_farmerpay) ==
    IF bt = SCB THEN (IF with_farmerpay THEN 1105 ELSE 1300)
    ELSE IF bt = RRB THEN (IF with_farmerpay THEN 900 ELSE 1000)
    ELSE (IF with_farmerpay THEN 688 ELSE 860)

\* variant: the assisted Cooperative branch keeps the unassisted revenue
OtherRevenue_NoUplift(bt, with_farmerpay) ==
    IF bt = SCB THEN (IF with_farmerpay THEN 300 ELSE 248)
    ELSE IF bt = RRB THEN (IF with_farmerpay THEN 250 ELSE 198)
    ELSE 148

OtherRevenue(bt, with_farmerpay) ==
    IF bt = SCB THEN (IF with_farmerpay THEN 300 ELSE 248)
    ELSE IF bt = RRB THEN (IF with_farmerpay THEN 250 ELSE 198)
    ELSE (IF with_farmerpay THEN 200 ELSE 148)

\* the returned dict; the two rates are divided by 100 (percent to fraction),
\* which leaves the fixed-point integer unchanged and moves its point
get_bank_parameters(bt, npa, with_farmerpay) ==
    [collection_efficiency |-> CollectionEfficiency(bt, npa, with_farmerpay),
     recovery_rate |-> RecoveryRate(bt, npa, with_farmerpay),
     operational_costs |-> OperationalCosts(bt, with_farmerpay),
     other_revenue |-> OtherRevenue(bt, with_farmerpay),
     effective_npa |-> IF with_farmerpay THEN FarmerPayEffectiveNpa(bt, npa) ELSE npa]

\* ----------------------------------------------------- calculate_metrics
\* variant: provisioning on the raw npa_rate argument
ProvisioningNpa_Raw(params, npa) == npa

\* bank_params.get('effective_npa', npa_rate)
ProvisioningNpa(params, npa) ==
    IF "effective_npa" \in DOMAIN params THEN params.effective_npa ELSE npa

\* (interest_rate / 100) * loan_amount * collection_efficiency
InterestIncome(loan, rate, ce) == rate * (loan \div LoanStep) * ce

\* 0.015 * loan_amount * recovery_rate
GovtSubvention(loan, rr) == 15 * (loan \div LoanStep) * rr

\* variant: provisioning coverage 20% instead of 25%
NpaProvisioning_Coverage20(loan, effective_npa) == effective_npa * 2000 * (loan \div LoanStep)

\* (effective_npa / 100) * 0.25 * loan_amount
NpaProvisioning(loan, effective_npa) == effective_npa * 2500 * (loan \div LoanStep)

TotalRevenue(interest_income, govt_subvention, other_revenue) ==
    interest_income + govt_subvention + other_revenue

\* variant: the FarmerPay fee left out of the costs
TotalCosts_NoFee(operational_costs, npa_provisioning, farmerpay_cost) ==
    operational_costs + npa_provisioning

TotalCosts(operational_costs, npa_provisioning, farmerpay_cost) ==
    operational_costs + npa_provisioning + farmerpay_cost

\* variant: a loss is reported as 0
NetProfit_Clamped(total_revenue, total_costs) == Max(0, total_revenue - total_costs)

NetProfit(total_revenue, total_costs) == total_revenue - total_costs

calculate_metrics(loan, rate, npa, params, fee) ==
    LET effective_npa == ProvisioningNpa(params, npa)
        interest_income == InterestIncome(loan, rate, params.collection_efficiency)
        govt_subvention == GovtSubvention(loan, params.recovery_rate)
        other_revenue == Rupees(params.other_revenue)
        total_revenue == TotalRevenue(interest_income, govt_subvention, other_revenue)
        operational_costs == Rupees(params.operational_costs)
        npa_provisioning == NpaProvisioning(loan, effective_npa)
        farmerpay_cost == Rupees(fee)
        total_costs == TotalCosts(operational_costs, npa_provisioning, farmerpay_cost)
        net_profit == NetProfit(total_revenue, total_costs)
    IN  [interest_income |-> interest_income,
         govt_subvention |-> govt_subvention,
         other_revenue |-> other_revenue,
         total_revenue |-> total_revenue,
         operational_costs |-> operational_costs,
         npa_provisioning |-> npa_provisioning,
         farmerpay_fee |-> farmerpay_cost,
         total_costs |-> total_costs,
         net_profit |-> net_profit,
         collection_efficiency |-> params.collection_efficiency,
         recovery_rate |-> params.recovery_rate,
         effective_npa |-> effective_npa]

\* ------------------------------------------------- FarmerPay financials
\* Platform money is in units of 10 rupees; farmer counts are multiples of
\* FarmerStep, so farmers * per_farmer is computed without leaving 32 bits.
PlatformAmount(farmers, per_farmer) == (farmers \div FarmerStep) * per_farmer * 100

additional_revenue_per_farmer(streams) ==
    streams.insurance_commission + streams.marketplace_commission
        + streams.data_analytics_revenue + streams.credit_scoring_revenue
        + streams.weather_advisory_revenue + streams.training_programs_revenue

service_cost_per_farmer == 400
technology_opex_per_farmer == 100

\* variant: the technology cost is left out of the direct cost
total_direct_cost_per_farmer_ServiceOnly == service_cost_per_farmer

total_direct_cost_per_farmer == service_cost_per_farmer + technology_opex_per_farmer

\* share of a positive gross profit paid to the intermediary, in percent
IntermediaryRate == 30

\* variant: the main calculation pays the optimized fallback share
intermediary_payment_Rate25(gross_profit) ==
    IF gross_profit > 0 THEN (gross_profit \div 100) * 25 ELSE 0

\* gross_profit * 0.30 if gross_profit > 0, else 0 (main calculation)
intermediary_payment(gross_profit) ==
    IF gross_profit > 0 THEN (gross_profit \div 100) * IntermediaryRate ELSE 0

\* variant: the scaling loop pays a 25% share
scale_intermediary_payment_Rate25(scale_gross_profit) ==
    IF scale_gross_profit > 0 THEN (scale_gross_profit \div 100) * 25 ELSE 0

\* the same rule as written again in the scaling loop
scale_intermediary_payment(scale_gross_profit) ==
    IF scale_gross_profit > 0 THEN (scale_gross_profit \div 100) * IntermediaryRate ELSE 0

\* variant: the tier thresholds are exclusive
platform_investment_ExclusiveThresholds(farmers) ==
    IF farmers < 10000 THEN 5000000
    ELSE IF farmers < 100000 THEN 10000000
    ELSE 20000000

\* platform development cost, in units of 10 rupees
platform_investment(farmers) ==
    IF farmers <= 10000 THEN 5000000
    ELSE IF farmers <= 100000 THEN 10000000
    ELSE 20000000

\* the main platform calculation
PlatformFinancials(farmers, streams, fee) ==
    LET additional == additional_revenue_per_farmer(streams)
        total_revenue_per_farmer == fee + additional
        farmerpay_annual_revenue == PlatformAmount(farmers, total_revenue_per_farmer)
        farmerpay_direct_costs == PlatformAmount(farmers, total_direct_cost_per_farmer)
        farmerpay_gross_profit == farmerpay_annual_revenue - farmerpay_direct_costs
        payment == intermediary_payment(farmerpay_gross_profit)
    IN  [additional_revenue_per_farmer |-> additional,
         total_revenue_per_farmer |-> total_revenue_per_farmer,
         farmerpay_annual_revenue |-> farmerpay_annual_revenue,
         farmerpay_direct_costs |-> farmerpay_direct_costs,
         farmerpay_gross_profit |-> farmerpay_gross_profit,
         intermediary_payment |-> payment,
         farmerpay_net_profit |-> farmerpay_gross_profit - payment,
         total_costs |-> farmerpay_direct_costs + payment,
         platform_investment |-> platform_investment(farmers)]

\* one row of the scaling table
ScalingRow(scale, total_revenue_per_farmer) ==
    LET scale_revenue == PlatformAmount(scale, total_revenue_per_farmer)
        scale_direct_costs == PlatformAmount(scale, total_direct_cost_per_farmer)
        scale_gross_profit == scale_revenue - scale_direct_costs
        scale_payment == scale_intermediary_payment(scale_gross_profit)
    IN  [Farmers |-> scale,
         scale_revenue |-> scale_revenue,
         scale_direct_costs |-> scale_direct_costs,
         scale_gross_profit |-> scale_gross_profit,
         scale_intermediary_payment |-> scale_payment,
         scale_profit |-> scale_gross_profit - scale_payment,
         investment |-> IF scale <= 10000 THEN 5000000
                        ELSE IF scale <= 100000 THEN 10000000
                        ELSE 20000000]

ScalingTable(total_revenue_per_farmer) ==
    [i \in 1..Len(farmer_scale_range) |->
        ScalingRow(farmer_scale_range[i], total_revenue_per_farmer)]

\* ------------------------------------------------------ guarded ratios
\* A float quotient is kept as the pair it is computed from; dividing by zero
\* raises ZeroDivisionError in the script.
Divide(n, d) ==
    IF d = 0 THEN [kind |-> "ZeroDivisionError", num |-> n, den |-> d]
    ELSE [kind |-> "value", num |-> n, den |-> d]

\* the fallback 0 of a guarded ratio
Zero == [kind |-> "zero", num |-> 0, den |-> 1]

\* float('inf')
Infinity == [kind |-> "inf", num |-> 1, den |-> 0]

\* net_profit / total_revenue * 100 if total_revenue > 0 else 0
ProfitMargin(net_profit, total_revenue) ==
    IF total_revenue > 0 THEN Divide(net_profit, total_revenue) ELSE Zero

\* net_value / farmerpay_fee * 100 if farmerpay_fee > 0 else 0
BankRoi(net_value, fee) ==
    IF fee > 0 THEN Divide(net_value, Rupees(fee)) ELSE Zero

\* variant: the break-even guard tests the fee, as the ROI guard does
BreakEvenMonths_FeeGuard(fee, net_value) ==
    IF fee > 0 THEN Divide(Rupees(fee) * 12, net_value) ELSE Infinity

\* farmerpay_fee / (net_value / 12) if net_value > 0 else float('inf')
BreakEvenMonths(fee, net_value) ==
    IF net_value > 0 THEN Divide(Rupees(fee) * 12, net_value) ELSE Infinity

\* (fp_total_revenue / total_revenue - 1) * 100 if total_revenue > 0 else 0
RevenueImprovement(fp_total_revenue, total_revenue) ==
    IF total_revenue > 0 THEN Divide(fp_total_revenue - total_revenue, total_revenue)
    ELSE Zero

\* ecosystem_value / num_farmers if num_farmers > 0 else 0, where
\* ecosystem_value = farmerpay_net_profit + net_value * num_farmers is kept
\* as its three terms (the product does not fit 32 bits)
ValuePerFarmer(farmerpay_net_profit, net_value, farmers) ==
    IF farmers > 0 THEN Divide(<<farmerpay_net_profit, net_value, farmers>>, farmers)
    ELSE Zero

\* portfolio_improvement / annual_fp_investment * 100 if annual_fp_investment > 0
\* else 0; portfolio_improvement = net_value * portfolio_size is kept as its
\* two factors (the product does not fit 32 bits)
PortfolioRoi(net_value, fee, size) ==
    LET annual_fp_investment == fee * size
    IN  IF annual_fp_investment > 0
        THEN Divide(<<net_value, size>>, annual_fp_investment)
        ELSE Zero

\* the bank key metrics of the FarmerPay comparison branch
KeyMetricsFarmerPay(m, m_fp, fee, farmers, size, fin) ==
    LET net_value == m_fp.net_profit - m.net_profit
    IN  [current_profit_margin |-> ProfitMargin(m.net_profit, m.total_revenue),
         fp_profit_margin |-> ProfitMargin(m_fp.net_profit, m_fp.total_revenue),
         bank_roi |-> BankRoi(net_value, fee),
         break_even_months |-> BreakEvenMonths(fee, net_value),
         revenue_improvement |-> RevenueImprovement(m_fp.total_revenue, m.total_revenue),
         revenue_increase |-> m_fp.total_revenue - m.total_revenue,
         cost_reduction |-> m.operational_costs - m_fp.operational_costs,
         provisioning_savings |-> m.npa_provisioning - m_fp.npa_provisioning,
         net_value |-> net_value,
         farmerpay_profit_margin |->
             ProfitMargin(fin.farmerpay_net_profit, fin.farmerpay_annual_revenue),
         farmerpay_roi |->
             IF fin.platform_investment > 0
             THEN Divide(fin.farmerpay_net_profit, fin.platform_investment) ELSE Zero,
         value_per_farmer |-> ValuePerFarmer(fin.farmerpay_net_profit, net_value, farmers),
         portfolio_roi |-> PortfolioRoi(net_value, fee, size)]

\* the bank key metrics of the branch without FarmerPay
KeyMetricsPlain(m) ==
    [profit_margin |-> ProfitMargin(m.net_profit, m.total_revenue)]

\* ---------------------------------------------------------------- sweeps
CeilDiv(a, b) == -((-a) \div b)

\* np.arange(start, stop, step): start, start + step, ... strictly below stop
Arange(start, stop, step) ==
    [i \in 1..Max(0, CeilDiv(stop - start, step)) |-> start + (i - 1) * step]

\* variant: the stop of each range is its last fee, which arange excludes
price_range_ExclusiveStop(bt) ==
    IF bt = SCB THEN Arange(600, 1000, 50)
    ELSE IF bt = RRB THEN Arange(450, 750, 50)
    ELSE Arange(350, 650, 50)

price_range(bt) ==
    IF bt = SCB THEN Arange(600, 1001, 50)
    ELSE IF bt = RRB THEN Arange(450, 751, 50)
    ELSE Arange(350, 651, 50)

\* one iteration of the fee loop
PricingRow(test_fee, loan, rate, npa, params_fp, m) ==
    LET test_metrics_fp == calculate_metrics(loan, rate, npa, params_fp, test_fee)
        test_net_value == test_metrics_fp.net_profit - m.net_profit
    IN  [Fee |-> test_fee,
         Bank_Net_Profit |-> test_metrics_fp.net_profit,
         Net_Value_Addition |-> test_net_value,
         ROI |-> IF test_fee > 0 THEN Divide(test_net_value, Rupees(test_fee)) ELSE Zero,
         Break_Even_Months |-> IF test_net_value > 0
                               THEN Divide(Rupees(test_fee) * 12, test_net_value)
                               ELSE Infinity]

PricingData(bt, loan, rate, npa, params_fp, m) ==
    LET range == price_range(bt)
    IN  [i \in 1..Len(range) |-> PricingRow(range[i], loan, rate, npa, params_fp, m)]

\* variant: every swept fee counts as viable
viable_fees_Unfiltered(data) == data

\* rows with Net_Value_Addition > 0
viable_fees(data) == SelectSeq(data, LAMBDA row : row.Net_Value_Addition > 0)

\* idxmax: the first row holding the largest Net_Value_Addition
IdxMax(rows) ==
    CHOOSE i \in 1..Len(rows) :
        /\ \A j \in 1..Len(rows) : rows[j].Net_Value_Addition <= rows[i].Net_Value_Addition
        /\ \A j \in 1..(i - 1) : rows[j].Net_Value_Addition < rows[i].Net_Value_Addition

\* the recommended fee: <<fee>>, or <<>> when no success message is shown
OptimalFee(data) ==
    LET viable == viable_fees(data)
    IN  IF viable # <<>> THEN <<viable[IdxMax(viable)].Fee>> ELSE <<>>

\* np.arange(0.5, min(25.0, npa_rate * 2), 0.5)
npa_range(npa) == Arange(50, Min(2500, npa * 2), 50)

\* one iteration of the NPA loop
SensitivityRow(test_npa, bt, loan, rate) ==
    LET test_params == get_bank_parameters(bt, test_npa, FALSE)
        test_metrics == calculate_metrics(loan, rate, test_npa, test_params, 0)
    IN  [NPA_Rate |-> test_npa,
         Net_Profit |-> test_metrics.net_profit,
         NPA_Provisioning |-> test_metrics.npa_provisioning,
         Total_Revenue |-> test_metrics.total_revenue]

SensitivityData(bt, loan, rate, npa) ==
    LET range == npa_range(npa)
    IN  [i \in 1..Len(range) |-> SensitivityRow(range[i], bt, loan, rate)]

\* ------------------------------------------------------- the script run
\* the values the widgets hold in the current state
Widgets ==
    [bank_type |-> bank_type, npa_rate |-> npa_rate, loan_amount |-> loan_amount,
     interest_rate |-> interest_rate, include_farmerpay |-> include_farmerpay,
     basic_tier_percentage |-> basic_tier_percentage,
     premium_tier_percentage |-> premium_tier_percentage,
     basic_tier_price |-> basic_tier_price,
     premium_tier_price |-> premium_tier_price,
     enterprise_tier_price |-> enterprise_tier_price,
     num_farmers |-> num_farmers, revenue_streams |-> revenue_streams,
     portfolio_size |-> portfolio_size]

\* the widgets of the first run: every one at its default
DefaultWidgets ==
    [bank_type |-> SCB, npa_rate |-> DefaultNpa(SCB), loan_amount |-> DefaultLoan,
     interest_rate |-> DefaultRate, include_farmerpay |-> TRUE,
     basic_tier_percentage |-> DefaultBasicPct,
     premium_tier_percentage |-> DefaultPremiumPct,
     basic_tier_price |-> DefaultBasicPrice,
     premium_tier_price |-> DefaultPremiumPrice,
     enterprise_tier_price |-> DefaultEnterprisePrice,
     num_farmers |-> DefaultFarmers, revenue_streams |-> DefaultRevenueStreams,
     portfolio_size |-> DefaultPortfolioSize]

\* One complete run of the script on the widget values w: every name the
\* script binds, as a record.
Script(w) ==
    LET fp == w.include_farmerpay
        fee == IF fp THEN WeightedFee(w.basic_tier_percentage, w.premium_tier_percentage,
                                      w.basic_tier_price, w.premium_tier_price,
                                      w.enterprise_tier_price)
                     ELSE 0
        farmers == IF fp THEN w.num_farmers ELSE 0
        params == get_bank_parameters(w.bank_type, w.npa_rate, FALSE)
        params_fp == get_bank_parameters(w.bank_type, w.npa_rate, TRUE)
        m == calculate_metrics(w.loan_amount, w.interest_rate, w.npa_rate, params, 0)
        m_fp == calculate_metrics(w.loan_amount, w.interest_rate, w.npa_rate, params_fp, fee)
        fin == PlatformFinancials(farmers, w.revenue_streams, fee)
    IN  [farmerpay_fee |-> fee,
         num_farmers |-> farmers,
         bank_params |-> params,
         metrics |-> m,
         bank_params_fp |-> IF fp THEN params_fp ELSE None,
         metrics_fp |-> IF fp THEN m_fp ELSE None,
         tiers |-> IF fp
                   THEN [basic |-> w.basic_tier_percentage,
                         premium |-> w.premium_tier_percentage,
                         enterprise |-> enterprise_tier_percentage(w.basic_tier_percentage,
                                                                   w.premium_tier_percentage)]
                   ELSE None,
         platform |-> IF fp THEN fin ELSE None,
         key_metrics |-> IF fp
                         THEN KeyMetricsFarmerPay(m, m_fp, fee, farmers, w.portfolio_size, fin)
                         ELSE KeyMetricsPlain(m)]

\* the state the script leaves on the widget values w
Bound(w, out) ==
    /\ bank_type = w.bank_type
    /\ npa_rate = w.npa_rate
    /\ loan_amount = w.loan_amount
    /\ interest_rate = w.interest_rate
    /\ include_farmerpay = w.include_farmerpay
    /\ basic_tier_percentage = w.basic_tier_percentage
    /\ premium_tier_percentage = w.premium_tier_percentage
    /\ basic_tier_price = w.basic_tier_price
    /\ premium_tier_price = w.premium_tier_price
    /\ enterprise_tier_price = w.enterprise_tier_price
    /\ revenue_streams = w.revenue_streams
    /\ portfolio_size = w.portfolio_size
    /\ num_farmers = out.num_farmers
    /\ farmerpay_fee = out.farmerpay_fee
    /\ bank_params = out.bank_params
    /\ metrics = out.metrics
    /\ bank_params_fp = out.bank_params_fp
    /\ metrics_fp = out.metrics_fp
    /\ tiers = out.tiers
    /\ platform = out.platform
    /\ key_metrics = out.key_metrics

\* a re-run binds the same names in the next state
Rerun(w) ==
    \E out \in {Script(w)} :
        /\ bank_type' = w.bank_type
        /\ npa_rate' = w.npa_rate
        /\ loan_amount' = w.loan_amount
        /\ interest_rate' = w.interest_rate
        /\ include_farmerpay' = w.include_farmerpay
        /\ basic_tier_percentage' = w.basic_tier_percentage
        /\ premium_tier_percentage' = w.premium_tier_percentage
        /\ basic_tier_price' = w.basic_tier_price
        /\ premium_tier_price' = w.premium_tier_price
        /\ enterprise_tier_price' = w.enterprise_tier_price
        /\ revenue_streams' = w.revenue_streams
        /\ portfolio_size' = w.portfolio_size
        /\ num_farmers' = out.num_farmers
        /\ farmerpay_fee' = out.farmerpay_fee
        /\ bank_params' = out.bank_params
        /\ metrics' = out.metrics
        /\ bank_params_fp' = out.bank_params_fp
        /\ metrics_fp' = out.metrics_fp
        /\ tiers' = out.tiers
        /\ platform' = out.platform
        /\ key_metrics' = out.key_metrics
        /\ UNCHANGED engine

\* The tables the script builds in its loops.  Each is a function of the
\* names bound before the loop, so it is given as a state function of them
\* (an empty table where the script skips the loop).
scaling_data ==
    IF include_farmerpay THEN ScalingTable(platform.total_revenue_per_farmer) ELSE <<>>

pricing_data ==
    IF include_farmerpay
    THEN PricingData(bank_type, loan_amount, interest_rate, npa_rate, bank_params_fp, metrics)
    ELSE <<>>

optimal_fee == OptimalFee(pricing_data)

sensitivity_data == SensitivityData(bank_type, loan_amount, interest_rate, npa_rate)

\* ---- strategy resolvers and growth projector ----
\* Percentages are integers (75 = x0.75, 18 = 18%); growth and churn rates
\* are in percent.

NoStrategy ==
    [cost_optimization |-> FALSE, partnership_optimization |-> FALSE,
     scale_benefits |-> FALSE]

\* the scale-benefit tier of a farmer count: multipliers of the service and
\* the technology cost, highest threshold first, one tier only
ScaleTier(farmers) ==
    IF farmers >= 100000 THEN [service |-> 85, technology |-> 80]
    ELSE IF farmers >= 50000 THEN [service |-> 90, technology |-> 85]
    ELSE IF farmers >= 25000 THEN [service |-> 95, technology |-> 90]
    ELSE [service |-> 100, technology |-> 100]

\* per-farmer service and technology cost under the cost toggles
PlatformCost(farmers, cost_optimization, scale_benefits) ==
    LET tier == IF scale_benefits THEN ScaleTier(farmers)
                ELSE [service |-> 100, technology |-> 100]
        service == (service_cost_per_farmer
                       * (IF cost_optimization THEN 75 ELSE 100) * tier.service) \div 10000
        technology == (technology_opex_per_farmer
                          * (IF cost_optimization THEN 80 ELSE 100) * tier.technology) \div 10000
    IN  [service_cost |-> service, technology_cost |-> technology,
         cost_per_farmer |-> service + technology,
         total_direct_cost |-> PlatformAmount(farmers, service + technology)]

\* intermediary share of a positive gross profit, in percent
PartnershipRate(farmers, partnership_optimization) ==
    IF ~partnership_optimization THEN IntermediaryRate
    ELSE IF farmers >= 100000 THEN 18
    ELSE IF farmers >= 50000 THEN 20
    ELSE IF farmers >= 25000 THEN 22
    ELSE 25

\* the platform's cost and partnership structure at the current farmer
\* count and toggles, and the payment it gives on the current revenue
resolved ==
    LET cost == PlatformCost(num_farmers, strategy.cost_optimization, strategy.scale_benefits)
        rate == PartnershipRate(num_farmers, strategy.partnership_optimization)
        revenue == IF include_farmerpay THEN platform.farmerpay_annual_revenue ELSE 0
        gross == revenue - cost.total_direct_cost
    IN  [service_cost |-> cost.service_cost, technology_cost |-> cost.technology_cost,
         cost_per_farmer |-> cost.cost_per_farmer,
         total_direct_cost |-> cost.total_direct_cost,
         partnership_rate |-> rate, gross_profit |-> gross,
         partnership_payment |-> IF gross > 0 THEN (gross \div 100) * rate ELSE 0]

ProjectionBases == {MinFarmers, DefaultFarmers}
GrowthRates == {0, 50}
ChurnRates == {0, 10, 100}
Horizons == 0..MaxHorizon

\* variant: growth and churn are netted before they are applied
ProjectYear_Additive(farmers, growth_rate, churn_rate) ==
    (farmers * (100 + growth_rate - churn_rate)) \div 100

\* floor(farmers * (1 + growth_rate) * (1 - churn_rate))
ProjectYear(farmers, growth_rate, churn_rate) ==
    (farmers * (100 + growth_rate) * (100 - churn_rate)) \div 10000

\* the farmer counts of years 0..horizon
RECURSIVE project(_, _, _, _)
project(base_farmers, growth_rate, churn_rate, horizon) ==
    IF horizon = 0 THEN <<base_farmers>>
    ELSE LET series == project(base_farmers, growth_rate, churn_rate, horizon - 1)
         IN  Append(series, ProjectYear(series[Len(series)], growth_rate, churn_rate))

DefaultScenario ==
    [base_farmers |-> DefaultFarmers, growth_rate |-> 0, churn_rate |-> 0, horizon |-> 0]

EngineInit ==
    /\ strategy = NoStrategy
    /\ scenario = DefaultScenario
    /\ projection = project(DefaultFarmers, 0, 0, 0)

\* the first run of the script: every widget at its default
Init == Bound(DefaultWidgets, Script(DefaultWidgets)) /\ EngineInit

\* the bank type select box; the NPA slider is re-created with the default
\* of the new bank type
SelectBankType ==
    \E bt \in BankTypes \ {bank_type} :
        Rerun([Widgets EXCEPT !.bank_type = bt, !.npa_rate = DefaultNpa(bt)])

\* the NPA slider moved with the keyboard: one step left or right (onto the
\* grid min + k*step) or to either end; every grid value is reachable
NpaMoves(npa) ==
    {Max(NpaMin, ((npa - 1) \div NpaStep) * NpaStep),
     Min(NpaMax, ((npa \div NpaStep) + 1) * NpaStep),
     NpaMin, NpaMax}

SetNpaRate ==
    \E npa \in NpaMoves(npa_rate) \ {npa_rate} :
        Rerun([Widgets EXCEPT !.npa_rate = npa])

SetLoanAmount ==
    \E loan \in LoanAmounts \ {loan_amount} :
        Rerun([Widgets EXCEPT !.loan_amount = loan])

SetInterestRate ==
    \E rate \in InterestRates \ {interest_rate} :
        Rerun([Widgets EXCEPT !.interest_rate = rate])

\* the "Include FarmerPay Analysis" checkbox; the FarmerPay widgets exist
\* only while it is ticked and are created with their defaults
ToggleFarmerPay ==
    Rerun([DefaultWidgets EXCEPT !.bank_type = bank_type, !.npa_rate = npa_rate,
                                 !.loan_amount = loan_amount,
                                 !.interest_rate = interest_rate,
                                 !.portfolio_size = portfolio_size,
                                 !.include_farmerpay = ~include_farmerpay])

SetBasicTierPrice ==
    /\ include_farmerpay
    /\ \E pb \in BasicPrices \ {basic_tier_price} :
        Rerun([Widgets EXCEPT !.basic_tier_price = pb])

Next ==
    \/ SelectBankType
    \/ SetNpaRate
    \/ SetLoanAmount
    \/ SetInterestRate
    \/ ToggleFarmerPay
    \/ SetBasicTierPrice

Spec == Init /\ [][Next]_vars

\* ------------------------------------------- the FarmerPay sidebar widgets
SetBasicTierPercentage ==
    /\ include_farmerpay
    /\ \E pct \in BasicPercentages \ {basic_tier_percentage} :
        Rerun([Widgets EXCEPT !.basic_tier_percentage = pct])

SetPremiumTierPercentage ==
    /\ include_farmerpay
    /\ \E pct \in PremiumPercentages \ {premium_tier_percentage} :
        Rerun([Widgets EXCEPT !.premium_tier_percentage = pct])

SetPremiumTierPrice ==
    /\ include_farmerpay
    /\ \E pp \in PremiumPrices \ {premium_tier_price} :
        Rerun([Widgets EXCEPT !.premium_tier_price = pp])

SetEnterpriseTierPrice ==
    /\ include_farmerpay
    /\ \E pe \in EnterprisePrices \ {enterprise_tier_price} :
        Rerun([Widgets EXCEPT !.enterprise_tier_price = pe])

SetNumFarmers ==
    /\ include_farmerpay
    /\ \E n \in FarmerCounts \ {num_farmers} :
        Rerun([Widgets EXCEPT !.num_farmers = n])

SetInsuranceCommission ==
    /\ include_farmerpay
    /\ \E c \in InsuranceCommissions \ {revenue_streams.insurance_commission} :
        Rerun([Widgets EXCEPT !.revenue_streams.insurance_commission = c])

SetPortfolioSize ==
    \E size \in PortfolioSizes \ {portfolio_size} :
        Rerun([Widgets EXCEPT !.portfolio_size = size])

\* the FarmerPay business: tier, farmer-count and revenue-stream widgets
\* with the bank inputs at their defaults
NextPlatform ==
    \/ SetBasicTierPercentage
    \/ SetPremiumTierPercentage
    \/ SetBasicTierPrice
    \/ SetPremiumTierPrice
    \/ SetEnterpriseTierPrice
    \/ SetNumFarmers
    \/ SetInsuranceCommission
    \/ ToggleFarmerPay

SpecPlatform == Init /\ [][NextPlatform]_vars

\* the bank comparison at portfolio level: portfolio size with the inputs
\* that decide the sign of the bank's net value
NextPortfolio ==
    \/ SetPortfolioSize
    \/ SelectBankType
    \/ SetLoanAmount
    \/ SetInterestRate
    \/ SetBasicTierPrice
    \/ ToggleFarmerPay

SpecPortfolio == Init /\ [][NextPortfolio]_vars

ToggleCostOptimization ==
    /\ strategy' = [strategy EXCEPT !.cost_optimization = ~@]
    /\ UNCHANGED <<inputs, outputs, scenario, projection>>

TogglePartnershipOptimization ==
    /\ strategy' = [strategy EXCEPT !.partnership_optimization = ~@]
    /\ UNCHANGED <<inputs, outputs, scenario, projection>>

ToggleScaleBenefits ==
    /\ strategy' = [strategy EXCEPT !.scale_benefits = ~@]
    /\ UNCHANGED <<inputs, outputs, scenario, projection>>

\* one call of the projector
Project ==
    \E b \in ProjectionBases, g \in GrowthRates, c \in ChurnRates, h \in Horizons :
        /\ scenario' = [base_farmers |-> b, growth_rate |-> g, churn_rate |-> c, horizon |-> h]
        /\ projection' = project(b, g, c, h)
        /\ UNCHANGED <<inputs, outputs, strategy>>

\* the engine under its strategy toggles, farmer counts and growth scenarios
NextEngine ==
    \/ ToggleCostOptimization
    \/ TogglePartnershipOptimization
    \/ ToggleScaleBenefits
    \/ SetNumFarmers
    \/ Project

SpecEngine == Init /\ [][NextEngine]_vars

TypeOK ==
    /\ bank_type \in BankTypes
    /\ npa_rate \in NpaValues(bank_type)
    /\ loan_amount \in LoanAmounts
    /\ interest_rate \in InterestRates
    /\ include_farmerpay \in BOOLEAN
    /\ metrics.net_profit \in Int

\* ================================================================ claims

\* C1: with FarmerPay the effective NPA is max(0, npa_rate - reduction), the
\* reduction being 2.0 points for SCB, 1.5 for RRB and 1.0 for Cooperative;
\* without FarmerPay it is npa_rate; it is never negative.
C1_EffectiveNpa ==
    LET reduction == CASE bank_type = SCB -> 200
                       [] bank_type = RRB -> 150
                       [] bank_type = COOP -> 100
    IN  /\ bank_params.effective_npa = npa_rate
        /\ bank_params.effective_npa >= 0
        /\ include_farmerpay =>
            /\ bank_params_fp.effective_npa >= 0
            /\ npa_rate >= reduction => bank_params_fp.effective_npa = npa_rate - reduction
            /\ npa_rate < reduction => bank_params_fp.effective_npa = 0

\* the clamp acts: an NPA rate below the reduction gives effective NPA 0
C1_Witness ==
    /\ include_farmerpay
    /\ bank_type = RRB
    /\ npa_rate = 100
    /\ bank_params_fp.effective_npa = 0
    /\ bank_params.effective_npa = 100

\* C2 (as claimed): collection efficiency and recovery rate of the profile
\* lie in the closed interval 0..1 for every category, flag and NPA rate.
C2_RatesWithinUnitInterval ==
    /\ bank_params.collection_efficiency \in 0..100000
    /\ bank_params.recovery_rate \in 0..100000
    /\ include_farmerpay =>
        /\ bank_params_fp.collection_efficiency \in 0..100000
        /\ bank_params_fp.recovery_rate \in 0..100000

\* C3 (as claimed): at the same NPA rate the assisted collection efficiency
\* and recovery rate are at least the unassisted ones.
C3_AssistedAtLeastUnassisted ==
    include_farmerpay =>
        /\ bank_params_fp.collection_efficiency >= bank_params.collection_efficiency
        /\ bank_params_fp.recovery_rate >= bank_params.recovery_rate

\* C4: collection efficiency (percent) is
\* max(floor, baseline - (effective_npa - reference_npa) * slope), slope 2.0
\* unassisted and 1.5 assisted; it is never below the floor of its variant
\* (SCB 60/75, RRB 70/80, Cooperative 72/77) and equals the baseline exactly
\* when the effective NPA equals the reference NPA.
C4_CollectionEfficiencyFormula ==
    LET floor(fp) == CASE bank_type = SCB -> IF fp THEN 75000 ELSE 60000
                       [] bank_type = RRB -> IF fp THEN 80000 ELSE 70000
                       [] bank_type = COOP -> IF fp THEN 77000 ELSE 72000
        baseline(fp) == CASE bank_type = SCB -> IF fp THEN 90000 ELSE 80000
                          [] bank_type = RRB -> IF fp THEN 93000 ELSE 85000
                          [] bank_type = COOP -> IF fp THEN 92000 ELSE 87000
        reference(fp) == CASE bank_type = SCB -> IF fp THEN 1216 ELSE 1416
                           [] bank_type = RRB -> IF fp THEN 560 ELSE 710
                           [] bank_type = COOP -> IF fp THEN 550 ELSE 650
        slope(fp) == IF fp THEN 15 ELSE 20
        linear(p, fp) == baseline(fp) - (p.effective_npa - reference(fp)) * slope(fp)
        Holds(p, fp) ==
            /\ p.collection_efficiency >= floor(fp)
            /\ linear(p, fp) >= floor(fp) => p.collection_efficiency = linear(p, fp)
            /\ linear(p, fp) < floor(fp) => p.collection_efficiency = floor(fp)
            /\ (p.effective_npa = reference(fp)) <=> (p.collection_efficiency = baseline(fp))
    IN  /\ Holds(bank_params, FALSE)
        /\ include_farmerpay => Holds(bank_params_fp, TRUE)

\* both variants strictly inside the degrading part of the curve
C4_Witness ==
    /\ include_farmerpay
    /\ bank_type = SCB
    /\ npa_rate = 2000
    /\ bank_params.collection_efficiency = 68320
    /\ bank_params_fp.effective_npa = 1800
    /\ bank_params_fp.collection_efficiency = 81240

\* C5: recovery rate (percent) is
\* max(floor, baseline - (effective_npa - reference_npa) * slope), slope 1.5
\* unassisted and 1.2 assisted; in the assisted Cooperative case, and only
\* there, the result is additionally capped with min(100, ...).
C5_RecoveryRateFormula ==
    LET floor(fp) == CASE bank_type = SCB -> IF fp THEN 85000 ELSE 70000
                       [] bank_type = RRB -> IF fp THEN 88000 ELSE 75000
                       [] bank_type = COOP -> IF fp THEN 88000 ELSE 73000
        baseline(fp) == CASE bank_type = SCB -> IF fp THEN 95000 ELSE 85000
                          [] bank_type = RRB -> IF fp THEN 98000 ELSE 90000
                          [] bank_type = COOP -> IF fp THEN 100000 ELSE 88000
        reference(fp) == CASE bank_type = SCB -> IF fp THEN 1216 ELSE 1416
                           [] bank_type = RRB -> IF fp THEN 560 ELSE 710
                           [] bank_type = COOP -> IF fp THEN 550 ELSE 650
        slope(fp) == IF fp THEN 12 ELSE 15
        linear(p, fp) == baseline(fp) - (p.effective_npa - reference(fp)) * slope(fp)
        capped(fp) == fp /\ bank_type = COOP
        Holds(p, fp) ==
            /\ linear(p, fp) < floor(fp) => p.recovery_rate = floor(fp)
            /\ (linear(p, fp) >= floor(fp) /\ ~(capped(fp) /\ linear(p, fp) > 100000))
                   => p.recovery_rate = linear(p, fp)
            /\ (capped(fp) /\ linear(p, fp) > 100000) => p.recovery_rate = 100000
    IN  /\ Holds(bank_params, FALSE)
        /\ include_farmerpay => Holds(bank_params_fp, TRUE)

\* the cap acts: assisted Cooperative below the reference NPA
C5_Witness ==
    /\ include_farmerpay
    /\ bank_type = COOP
    /\ npa_rate = 300
    /\ bank_params_fp.effective_npa = 200
    /\ bank_params_fp.recovery_rate = 100000
    /\ bank_params.recovery_rate = 93250

\* C6: every record returned by calculate_metrics satisfies
\* total_revenue = interest_income + govt_subvention + other_revenue,
\* total_costs = operational_costs + npa_provisioning + farmerpay_fee and
\* net_profit = total_revenue - total_costs.
C6_MetricsTotals ==
    LET Holds(m) ==
            /\ m.total_revenue - m.interest_income - m.govt_subvention = m.other_revenue
            /\ m.total_costs - m.operational_costs - m.npa_provisioning = m.farmerpay_fee
            /\ m.net_profit + m.total_costs = m.total_revenue
    IN  /\ Holds(metrics)
        /\ include_farmerpay => Holds(metrics_fp)

\* an assisted record with a fee, a provisioning charge and a loss
C6_Witness ==
    /\ include_farmerpay
    /\ metrics_fp.farmerpay_fee = Rupees(930)
    /\ metrics_fp.npa_provisioning > 0
    /\ metrics_fp.net_profit < 0
    /\ metrics.net_profit > 0

\* C7: interest income = (interest_rate/100) * principal * collection
\* efficiency, subvention = 0.015 * principal * recovery rate, provisioning =
\* (effective_npa/100) * 0.25 * principal, where effective_npa is the one of
\* the profile (reduced by FarmerPay in the assisted case), not the raw rate.
\* Money is in 1/10000 rupee: income * 10^4 = rate/1000 * loan * ce/10^5 * 10^8
\* is written with the loan in units of 10000 to stay within 32 bits.
C7_MetricsFormulas ==
    LET Holds(m, p) ==
            /\ m.interest_income = (interest_rate * p.collection_efficiency) * (loan_amount \div 10000)
            /\ m.govt_subvention * 2 = (3 * p.recovery_rate) * (loan_amount \div 1000)
            /\ m.npa_provisioning * 4 = p.effective_npa * loan_amount
    IN  /\ Holds(metrics, bank_params)
        /\ include_farmerpay => Holds(metrics_fp, bank_params_fp)

\* the assisted provisioning is charged on the reduced NPA, not on npa_rate
C7_Witness ==
    /\ include_farmerpay
    /\ bank_type = SCB
    /\ npa_rate = 1000
    /\ loan_amount = 120000
    /\ bank_params_fp.effective_npa = 800
    /\ metrics_fp.npa_provisioning = Rupees(2400)
    /\ metrics.npa_provisioning = Rupees(3000)

\* C8: principal 120,000, rate 7%, NPA 14.16%, SCB, unassisted gives
\* collection efficiency 80%, recovery rate 85%, operating cost 1,300, other
\* revenue 248 and, with fee 0, net profit
\* (6,720 + 1,530 + 248) - (1,300 + 4,248) = 2,950.
C8_UnassistedScenario ==
    (bank_type = SCB /\ npa_rate = 1416 /\ loan_amount = 120000 /\ interest_rate = 70) =>
        /\ bank_params.collection_efficiency = 80000
        /\ bank_params.recovery_rate = 85000
        /\ bank_params.operational_costs = 1300
        /\ bank_params.other_revenue = 248
        /\ metrics.farmerpay_fee = 0
        /\ metrics.interest_income = Rupees(6720)
        /\ metrics.govt_subvention = Rupees(1530)
        /\ metrics.npa_provisioning = Rupees(4248)
        /\ metrics.net_profit = Rupees(2950)

\* the scenario, reached again after the FarmerPay analysis was switched off
C8_Witness ==
    /\ bank_type = SCB /\ npa_rate = 1416 /\ loan_amount = 120000 /\ interest_rate = 70
    /\ ~include_farmerpay
    /\ metrics.net_profit = Rupees(2950)

\* C9: the same inputs, assisted: effective NPA 12.16%, collection
\* efficiency 90%, recovery rate 95%, operating cost 1,105, other revenue 300.
C9_AssistedScenario ==
    (bank_type = SCB /\ npa_rate = 1416 /\ loan_amount = 120000 /\ interest_rate = 70
        /\ include_farmerpay) =>
        /\ bank_params_fp.effective_npa = 1216
        /\ bank_params_fp.collection_efficiency = 90000
        /\ bank_params_fp.recovery_rate = 95000
        /\ bank_params_fp.operational_costs = 1105
        /\ bank_params_fp.other_revenue = 300

\* the scenario, with a tier price moved away from its default
C9_Witness ==
    /\ bank_type = SCB /\ npa_rate = 1416 /\ loan_amount = 120000 /\ interest_rate = 70
    /\ include_farmerpay
    /\ basic_tier_price = MaxBasicPrice
    /\ bank_params_fp.effective_npa = 1216

\* C10: operating cost and non-interest revenue of the profile depend only on
\* (category, assistance flag), not on the NPA rate: a run that keeps the
\* category keeps them; and for each category the assisted operating cost is
\* strictly lower and the assisted non-interest revenue strictly higher.
C10_FlatCostAndRevenue ==
    /\ [](include_farmerpay =>
            /\ bank_params_fp.operational_costs < bank_params.operational_costs
            /\ bank_params_fp.other_revenue > bank_params.other_revenue)
    /\ [][bank_type' = bank_type =>
            /\ bank_params'.operational_costs = bank_params.operational_costs
            /\ bank_params'.other_revenue = bank_params.other_revenue
            /\ (include_farmerpay /\ include_farmerpay') =>
                /\ bank_params_fp'.operational_costs = bank_params_fp.operational_costs
                /\ bank_params_fp'.other_revenue = bank_params_fp.other_revenue]_vars

\* Cooperative profiles at an NPA rate far from the default
C10_Witness ==
    /\ include_farmerpay
    /\ bank_type = COOP
    /\ npa_rate = NpaMax
    /\ bank_params.operational_costs = 860
    /\ bank_params_fp.operational_costs = 688
    /\ bank_params.other_revenue = 148
    /\ bank_params_fp.other_revenue = 200

\* C11 (as claimed): the enterprise share is 100 - basic - premium, the three
\* shares sum to 100, and each share, the derived one included, lies
\* between 0 and 100.
C11_TierSharesValid ==
    include_farmerpay =>
        /\ tiers.enterprise = 100 - basic_tier_percentage - premium_tier_percentage
        /\ tiers.basic + tiers.premium + tiers.enterprise = 100
        /\ tiers.basic \in 0..100
        /\ tiers.premium \in 0..100
        /\ tiers.enterprise \in 0..100

\* C12 (as claimed): the weighted average fee lies between the smallest and
\* the largest of the three tier prices.
C12_FeeWithinTierPrices ==
    include_farmerpay =>
        /\ farmerpay_fee >= Min(basic_tier_price, Min(premium_tier_price, enterprise_tier_price))
        /\ farmerpay_fee <= Max(basic_tier_price, Max(premium_tier_price, enterprise_tier_price))

\* C13: gross profit = total revenue - total direct cost; the intermediary
\* payment is 30% of a positive gross profit and 0 otherwise; net profit =
\* gross profit - intermediary payment; in the main calculation and in every
\* row of the scaling table.
C13_PlatformInvariants ==
    include_farmerpay =>
        /\ platform.farmerpay_gross_profit
               = platform.farmerpay_annual_revenue - platform.farmerpay_direct_costs
        /\ platform.farmerpay_gross_profit > 0
               => platform.intermediary_payment * 10 = platform.farmerpay_gross_profit * 3
        /\ platform.farmerpay_gross_profit <= 0 => platform.intermediary_payment = 0
        /\ platform.farmerpay_net_profit + platform.intermediary_payment
               = platform.farmerpay_gross_profit
        /\ Len(scaling_data) = 9
        /\ \A i \in 1..Len(scaling_data) :
            LET row == scaling_data[i]
            IN  /\ row.scale_gross_profit = row.scale_revenue - row.scale_direct_costs
                /\ row.scale_gross_profit > 0
                       => row.scale_intermediary_payment * 10 = row.scale_gross_profit * 3
                /\ row.scale_gross_profit <= 0 => row.scale_intermediary_payment = 0
                /\ row.scale_profit + row.scale_intermediary_payment = row.scale_gross_profit

\* the smallest revenue per farmer the widgets allow, at the largest count:
\* 240 + 650 = 890 per farmer against a direct cost of 500
C13_Witness ==
    /\ include_farmerpay
    /\ num_farmers = MaxFarmers
    /\ farmerpay_fee = 240
    /\ platform.total_revenue_per_farmer = 890
    /\ platform.farmerpay_gross_profit = 97500000
    /\ platform.intermediary_payment = 29250000
    /\ platform.farmerpay_net_profit = 68250000
    /\ scaling_data[9].scale_profit = 27300000

\* C14: every division whose denominator can be zero is guarded: no ratio
\* raises; profit margins and revenue improvement are 0 when total revenue
\* is 0, bank ROI and portfolio ROI are 0 when the fee (or fee * portfolio
\* size) is 0, value per farmer is 0 when the farmer count is 0, and the
\* break-even months are infinite whenever the net value addition is not
\* strictly positive (in the key metrics and in every row of the fee sweep).
C14_GuardedDivisions ==
    LET Defined(q) == q.kind # "ZeroDivisionError" /\ (q.kind = "value" => q.den # 0)
    IN  IF include_farmerpay
        THEN /\ \A f \in {"current_profit_margin", "fp_profit_margin", "bank_roi",
                          "break_even_months", "revenue_improvement",
                          "farmerpay_profit_margin", "farmerpay_roi",
                          "value_per_farmer", "portfolio_roi"} : Defined(key_metrics[f])
             /\ metrics.total_revenue = 0 =>
                    /\ key_metrics.current_profit_margin = Zero
                    /\ key_metrics.revenue_improvement = Zero
             /\ metrics_fp.total_revenue = 0 => key_metrics.fp_profit_margin = Zero
             /\ farmerpay_fee = 0 => key_metrics.bank_roi = Zero
             /\ farmerpay_fee * portfolio_size = 0 => key_metrics.portfolio_roi = Zero
             /\ num_farmers = 0 => key_metrics.value_per_farmer = Zero
             /\ key_metrics.net_value <= 0 => key_metrics.break_even_months = Infinity
             /\ key_metrics.net_value > 0 => key_metrics.break_even_months.kind = "value"
             /\ \A i \in 1..Len(pricing_data) :
                    /\ Defined(pricing_data[i].ROI)
                    /\ Defined(pricing_data[i].Break_Even_Months)
                    /\ pricing_data[i].Net_Value_Addition <= 0
                           => pricing_data[i].Break_Even_Months = Infinity
        ELSE /\ Defined(key_metrics.profit_margin)
             /\ metrics.total_revenue = 0 => key_metrics.profit_margin = Zero

\* FarmerPay does not pay for itself: the break-even guard falls back
C14_Witness ==
    /\ include_farmerpay
    /\ portfolio_size = 5000
    /\ key_metrics.net_value < 0
    /\ key_metrics.break_even_months = Infinity
    /\ key_metrics.bank_roi.kind = "value"
    /\ key_metrics.portfolio_roi.den = farmerpay_fee * 5000
    /\ \A i \in 1..Len(pricing_data) : pricing_data[i].Break_Even_Months = Infinity

\* C15: a fee is recommended only if some swept fee has a strictly positive
\* net value addition (assisted net profit at that fee minus baseline net
\* profit); the recommended fee then has the largest net value addition of
\* the strictly positive ones; when no swept fee is positive nothing is
\* recommended.
C15_OptimalFeePolicy ==
    include_farmerpay =>
        LET positive == {i \in 1..Len(pricing_data) : pricing_data[i].Net_Value_Addition > 0}
        IN  /\ \A i \in 1..Len(pricing_data) :
                   pricing_data[i].Net_Value_Addition
                       = pricing_data[i].Bank_Net_Profit - metrics.net_profit
            /\ Len(optimal_fee) <= 1
            /\ positive = {} => optimal_fee = <<>>
            /\ positive # {} => optimal_fee # <<>>
            /\ optimal_fee # <<>> =>
                   \E i \in positive :
                       /\ pricing_data[i].Fee = optimal_fee[1]
                       /\ \A j \in positive : pricing_data[j].Net_Value_Addition
                                                  <= pricing_data[i].Net_Value_Addition

\* a sweep in which only some fees are viable, and one is recommended
C15_Witness ==
    /\ include_farmerpay
    /\ \E i \in 1..Len(pricing_data) : pricing_data[i].Net_Value_Addition > 0
    /\ \E i \in 1..Len(pricing_data) : pricing_data[i].Net_Value_Addition <= 0
    /\ optimal_fee # <<>>

\* a sweep in which no fee is viable and nothing is recommended
C15_WitnessNone ==
    /\ include_farmerpay
    /\ Len(pricing_data) = 9
    /\ \A i \in 1..Len(pricing_data) : pricing_data[i].Net_Value_Addition <= 0
    /\ optimal_fee = <<>>

\* C16: the fee sweep visits fees in ascending order with step 50 over the
\* range of the category, both ends included (SCB 600..1000, RRB 450..750,
\* Cooperative 350..650); the NPA sweep visits 0.5, 1.0, ... in steps of 0.5,
\* every value strictly below min(25, 2 * npa_rate); each point is computed
\* by the functions of the main result.
C16_SweepRanges ==
    LET first == CASE bank_type = SCB -> 600 [] bank_type = RRB -> 450 [] bank_type = COOP -> 350
        last == CASE bank_type = SCB -> 1000 [] bank_type = RRB -> 750 [] bank_type = COOP -> 650
        stop == Min(2500, 2 * npa_rate)
    IN  \A fees \in {pricing_data}, points \in {sensitivity_data} :
        /\ include_farmerpay =>
            /\ Len(fees) = (last - first) \div 50 + 1
            /\ fees[1].Fee = first
            /\ fees[Len(fees)].Fee = last
            /\ \A i \in 1..(Len(fees) - 1) : fees[i + 1].Fee = fees[i].Fee + 50
            /\ \A i \in 1..Len(fees) :
                   /\ fees[i].Bank_Net_Profit + Rupees(fees[i].Fee)
                          = metrics_fp.net_profit + Rupees(farmerpay_fee)
                   /\ fees[i].Bank_Net_Profit
                          = calculate_metrics(loan_amount, interest_rate, npa_rate,
                                              bank_params_fp, fees[i].Fee).net_profit
        /\ Len(points) = 0 <=> stop <= 50
        /\ Len(points) > 0 =>
               /\ points[1].NPA_Rate = 50
               /\ points[Len(points)].NPA_Rate + 50 >= stop
        /\ \A i \in 1..(Len(points) - 1) : points[i + 1].NPA_Rate = points[i].NPA_Rate + 50
        /\ \A i \in 1..Len(points) :
               \A point \in {calculate_metrics(loan_amount, interest_rate, points[i].NPA_Rate,
                                get_bank_parameters(bank_type, points[i].NPA_Rate, FALSE), 0)} :
                   /\ points[i].NPA_Rate < stop
                   /\ points[i].Net_Profit = point.net_profit
                   /\ points[i].NPA_Provisioning = point.npa_provisioning
                   /\ points[i].Total_Revenue = point.total_revenue
                   /\ points[i].NPA_Rate = npa_rate =>
                          /\ points[i].Net_Profit = metrics.net_profit
                          /\ points[i].NPA_Provisioning = metrics.npa_provisioning

\* RRB at NPA 7.0: fees 450..750 and NPA points 0.5..13.5, the point at 7.0
\* repeating the main result
C16_Witness ==
    /\ include_farmerpay
    /\ bank_type = RRB
    /\ npa_rate = 700
    /\ Len(pricing_data) = 7
    /\ pricing_data[7].Fee = 750
    /\ Len(sensitivity_data) = 27
    /\ sensitivity_data[27].NPA_Rate = 1350
    /\ sensitivity_data[14].Net_Profit = metrics.net_profit

\* C17 (as claimed): every currency field of the bank and platform records
\* that is not a delta, net profit and gross profit included, is
\* non-negative.
C17_AllCurrencyNonNegative ==
    /\ metrics.net_profit >= 0
    /\ include_farmerpay =>
        /\ metrics_fp.net_profit >= 0
        /\ platform.farmerpay_gross_profit >= 0
        /\ platform.farmerpay_net_profit >= 0

\* C17 (amended): every currency field of the bank and platform records
\* other than the bank's net_profit and the delta fields is non-negative.
C17_CurrencyNonNegativeExceptBankNetProfit ==
    LET BankFields(m) ==
            /\ m.interest_income >= 0
            /\ m.govt_subvention >= 0
            /\ m.other_revenue >= 0
            /\ m.total_revenue >= 0
            /\ m.operational_costs >= 0
            /\ m.npa_provisioning >= 0
            /\ m.farmerpay_fee >= 0
            /\ m.total_costs >= 0
    IN  /\ BankFields(metrics)
        /\ include_farmerpay =>
            /\ BankFields(metrics_fp)
            /\ platform.farmerpay_annual_revenue >= 0
            /\ platform.farmerpay_direct_costs >= 0
            /\ platform.farmerpay_gross_profit >= 0
            /\ platform.intermediary_payment >= 0
            /\ platform.farmerpay_net_profit >= 0
            /\ platform.total_costs >= 0
            /\ platform.platform_investment >= 0
            /\ \A i \in 1..Len(scaling_data) :
                   /\ scaling_data[i].scale_revenue >= 0
                   /\ scaling_data[i].scale_gross_profit >= 0
                   /\ scaling_data[i].scale_profit >= 0

\* both bank records make a loss while every other field is non-negative
C17_Witness ==
    /\ include_farmerpay
    /\ npa_rate = NpaMin
    /\ metrics_fp.npa_provisioning = 0
    /\ metrics_fp.net_profit < 0
    /\ platform.farmerpay_net_profit > 0

\* C18: the projection has horizon+1 points; year 0 is the base farmer count
\* and every later year is floor(previous * (1 + growth) * (1 - churn)); so
\* growth 0 with churn 0 keeps the count constant, churn 1 gives 0 from year
\* 1 on, and base 10,000 with growth 0.5 and churn 0.10 gives 13,500 at year
\* 1 and 18,225 at year 2.
C18_GrowthProjection ==
    LET g == scenario.growth_rate
        c == scenario.churn_rate
    IN  /\ Len(projection) = scenario.horizon + 1
        /\ projection[1] = scenario.base_farmers
        /\ \A y \in 2..Len(projection) :
               LET exact == projection[y - 1] * (100 + g) * (100 - c)
               IN  /\ projection[y] * 10000 <= exact
                   /\ exact < (projection[y] + 1) * 10000
        /\ (g = 0 /\ c = 0) =>
               \A y \in 1..Len(projection) : projection[y] = scenario.base_farmers
        /\ c = 100 => \A y \in 2..Len(projection) : projection[y] = 0
        /\ (scenario.base_farmers = 10000 /\ g = 50 /\ c = 10) =>
               /\ scenario.horizon >= 1 => projection[2] = 13500
               /\ scenario.horizon >= 2 => projection[3] = 18225

\* the scenario of the claim, projected over three years
C18_Witness ==
    /\ scenario = [base_farmers |-> 10000, growth_rate |-> 50, churn_rate |-> 10, horizon |-> 3]
    /\ projection = <<10000, 13500, 18225, 24603>>

\* C19: the partnership rate applied to a positive gross profit is 30%
\* without optimization; with partnership optimization it is chosen by the
\* farmer count, highest threshold first: >= 100,000 gives 18%, >= 50,000
\* gives 20%, >= 25,000 gives 22%, otherwise 25%.
C19_PartnershipRate ==
    LET n == num_farmers
        rate == resolved.partnership_rate
    IN  include_farmerpay =>
        /\ ~strategy.partnership_optimization =>
               /\ rate = 30
               /\ platform.farmerpay_gross_profit > 0
               /\ platform.intermediary_payment % rate = 0
               /\ (platform.intermediary_payment \div rate) * 100 = platform.farmerpay_gross_profit
        /\ strategy.partnership_optimization =>
               /\ n >= 100000 => rate = 18
               /\ (n >= 50000 /\ n < 100000) => rate = 20
               /\ (n >= 25000 /\ n < 50000) => rate = 22
               /\ n < 25000 => rate = 25
        /\ resolved.gross_profit > 0
        /\ resolved.partnership_payment % rate = 0
        /\ (resolved.partnership_payment \div rate) * 100 = resolved.gross_profit

\* optimized rates of two tiers, each applied to a positive gross profit
C19_Witness ==
    /\ include_farmerpay
    /\ strategy.partnership_optimization
    /\ num_farmers = 50000
    /\ resolved.partnership_rate = 20
    /\ resolved.gross_profit > 0
    /\ resolved.partnership_payment * 5 = resolved.gross_profit

\* C20: the per-farmer direct cost is 400 + 100 = 500 with no toggle; cost
\* optimization multiplies the service cost by 0.75 and the technology cost
\* by 0.80; scale benefits apply exactly one farmer-count tier, highest
\* threshold first (>= 100,000: x0.85/x0.80; >= 50,000: x0.90/x0.85;
\* >= 25,000: x0.95/x0.90); total direct cost = farmer count * per-farmer
\* cost.
C20_DirectCost ==
    LET n == num_farmers
        co == strategy.cost_optimization
        sb == strategy.scale_benefits
        Costs(service, technology) ==
            /\ resolved.service_cost = service
            /\ resolved.technology_cost = technology
    IN  include_farmerpay =>
        /\ (~co /\ ~sb) =>
               /\ Costs(400, 100)
               /\ resolved.cost_per_farmer = 500
               /\ resolved.total_direct_cost = platform.farmerpay_direct_costs
        /\ (co /\ ~sb) => Costs(300, 80)
        /\ (~co /\ sb) =>
               /\ n >= 100000 => Costs(340, 80)
               /\ (n >= 50000 /\ n < 100000) => Costs(360, 85)
               /\ (n >= 25000 /\ n < 50000) => Costs(380, 90)
               /\ n < 25000 => Costs(400, 100)
        /\ (co /\ sb) =>
               /\ n >= 100000 => Costs(255, 64)
               /\ (n >= 50000 /\ n < 100000) => Costs(270, 68)
               /\ (n >= 25000 /\ n < 50000) => Costs(285, 72)
               /\ n < 25000 => Costs(300, 80)
        /\ resolved.cost_per_farmer = resolved.service_cost + resolved.technology_cost
        /\ resolved.total_direct_cost * 10 = n * resolved.cost_per_farmer

\* both toggles at the highest tier: one tier's discount, not all three
C20_Witness ==
    /\ include_farmerpay
    /\ strategy.cost_optimization
    /\ strategy.scale_benefits
    /\ num_farmers = MaxFarmers
    /\ resolved.service_cost = 255
    /\ resolved.technology_cost = 64
    /\ resolved.total_direct_cost = 79750000

\* C22: in the fee sweep the assisted bank net profit and the net value
\* addition each fall by exactly the fee step (50) from one swept fee to the
\* next, so a recommended fee is always the smallest fee of the category's
\* range (600 SCB, 450 RRB, 350 Cooperative), whatever the loan amount,
\* interest rate and NPA rate.
C22_RecommendedFeeIsSmallest ==
    include_farmerpay =>
        \A fees \in {pricing_data} :
            /\ \A i \in 1..(Len(fees) - 1) :
                   /\ fees[i + 1].Bank_Net_Profit = fees[i].Bank_Net_Profit - Rupees(50)
                   /\ fees[i + 1].Net_Value_Addition = fees[i].Net_Value_Addition - Rupees(50)
            /\ optimal_fee # <<>> =>
                   /\ optimal_fee[1] = fees[1].Fee
                   /\ optimal_fee[1] = (CASE bank_type = SCB -> 600
                                          [] bank_type = RRB -> 450
                                          [] bank_type = COOP -> 350)

\* a Cooperative sweep away from the default loan with several viable fees
C22_Witness ==
    /\ include_farmerpay
    /\ bank_type = COOP
    /\ loan_amount # DefaultLoan
    /\ Len(viable_fees(pricing_data)) >= 2
    /\ optimal_fee = <<350>>

C24_SensitivitySweepNonEmpty ==
    Len(sensitivity_data) >= 1

\* C25: for each category and assistance flag, collection efficiency and
\* recovery rate do not increase when the NPA rate rises; for a fixed loan
\* amount and interest rate, along the NPA sensitivity sweep the unassisted
\* net profit does not increase and the NPA provisioning does not decrease.
C25_MonotoneInNpa ==
    /\ [](\A points \in {sensitivity_data} :
              \A i \in 1..(Len(points) - 1) :
                  /\ points[i + 1].Net_Profit <= points[i].Net_Profit
                  /\ points[i + 1].NPA_Provisioning >= points[i].NPA_Provisioning)
    /\ [][(bank_type' = bank_type /\ npa_rate' > npa_rate) =>
            /\ bank_params'.collection_efficiency <= bank_params.collection_efficiency
            /\ bank_params'.recovery_rate <= bank_params.recovery_rate
            /\ (include_farmerpay /\ include_farmerpay') =>
                /\ bank_params_fp'.collection_efficiency
                       <= bank_params_fp.collection_efficiency
                /\ bank_params_fp'.recovery_rate <= bank_params_fp.recovery_rate]_vars

\* the NPA rate raised to its maximum: both rates at their floors, below the
\* rates of the first sweep point, and a sweep that falls from end to end
C25_Witness ==
    /\ include_farmerpay
    /\ npa_rate = NpaMax
    /\ bank_params.collection_efficiency
           < get_bank_parameters(bank_type, 50, FALSE).collection_efficiency
    /\ bank_params_fp.recovery_rate
           < get_bank_parameters(bank_type, 50, TRUE).recovery_rate
    /\ Len(sensitivity_data) = 49
    /\ sensitivity_data[49].Net_Profit < sensitivity_data[1].Net_Profit
    /\ sensitivity_data[49].NPA_Provisioning > sensitivity_data[1].NPA_Provisioning

\* C26: the platform investment is 50,000,000 up to 10,000 farmers,
\* 100,000,000 up to 100,000 and 200,000,000 above; when the farmer count is
\* one of the scaling-table scales, that row's net profit and ROI (net profit
\* / investment * 100) equal farmerpay_net_profit and farmerpay_roi of the
\* main calculation.
C26_ScalingTableAgrees ==
    include_farmerpay =>
        /\ num_farmers <= 10000 => platform.platform_investment = 5000000
        /\ (num_farmers > 10000 /\ num_farmers <= 100000) =>
               platform.platform_investment = 10000000
        /\ num_farmers > 100000 => platform.platform_investment = 20000000
        /\ \A rows \in {scaling_data} :
               \A i \in 1..Len(rows) :
                   rows[i].Farmers = num_farmers =>
                       /\ rows[i].scale_profit = platform.farmerpay_net_profit
                       /\ rows[i].investment = platform.platform_investment
                       /\ Divide(rows[i].scale_profit, rows[i].investment)
                              = key_metrics.farmerpay_roi

\* the farmer count on a tier threshold that is also a scale of the table
C26_Witness ==
    /\ include_farmerpay
    /\ num_farmers = 100000
    /\ scaling_data[6].Farmers = 100000
    /\ scaling_data[6].scale_profit = platform.farmerpay_net_profit
    /\ platform.platform_investment = 10000000
    /\ key_metrics.farmerpay_roi = Divide(platform.farmerpay_net_profit, 10000000)
    /\ platform.farmerpay_net_profit > 0
====
